---- MODULE Spec2Model ----
(***************************************************************************)
(* Model of the vault-state plugin (base/delta snapshot store).            *)
(*                                                                         *)
(* Strings of the program (paths, folder names, the ignoredFolders         *)
(* setting) are sequences of one-character strings, so that startsWith,    *)
(* split, trim and the prefix regular expressions are computed as the      *)
(* code computes them.  The vault is one file system: user files and the   *)
(* store's own files (base.json, delta-<day>.json) live in the same map,   *)
(* as vault.getFiles() returns them.  A calendar day is a number, written  *)
(* into file names with two digits; the clock of the model is the day.     *)
(***************************************************************************)
EXTENDS Integers, Sequences, FiniteSets, TLC

VARIABLES
  vault,           \* path -> [mtime, content, readable]: every file of the vault
  folders,         \* the folders that exist (only the snapshot folder matters)
  settings,        \* [snapshotFolder, ignoredFolders]
  ignorePatterns,  \* the compiled regular expressions (private ignorePatterns)
  today,           \* the calendar day of the wall clock
  inv,             \* invocation -> the locals and position of runDeltaIfNeeded
  hist             \* history: what was written when, and the exploration budget

vars == <<vault, folders, settings, ignorePatterns, today, inv, hist>>

-----------------------------------------------------------------------------
(* Bounds of the exploration *)

MaxDays == 2        \* days the clock may advance past the initial day
MaxEvents == 2      \* events of the environment: changes made by the user or
                    \* the operator between invocations, interruptions and
                    \* failed storage writes

-----------------------------------------------------------------------------
(* Program constants *)

CONSOLIDATION_THRESHOLD == 30

TEXT_EXTENSIONS ==
  { <<"m","d">>, <<"t","x","t">>, <<"c","s","v">>, <<"j","s","o","n">>,
    <<"j","s">>, <<"t","s">>, <<"c","s","s">>, <<"h","t","m","l">>,
    <<"y","a","m","l">>, <<"y","m","l">> }

\* DEFAULT_SETTINGS: both strings empty
DEFAULT_SETTINGS == [snapshotFolder |-> <<>>, ignoredFolders |-> <<>>]

-----------------------------------------------------------------------------
(* The strings of the model *)

PathA == <<"n","/","a",".","m","d">>            \* notes file, hashable
PathB == <<"t","/","b",".","p","n","g">>        \* image under t/, not hashable
UserPaths == {PathA, PathB}

ContentX == <<"x">>
ContentY == <<"y","y">>
UserContents == {ContentX, ContentY}

\* what the user can type into the "Snapshot Folder" text field
FolderInputs == { <<>>, <<" ","s"," ">> }
\* what data.json can hold for ignoredFolders
IgnoreInputs == { <<>>, <<"x",","," ","t","*",",">> }

BaseName == <<"b","a","s","e",".","j","s","o","n">>
DeltaPrefix == <<"d","e","l","t","a","-">>
JsonSuffix == <<".","j","s","o","n">>

DigitChars == <<"0","1","2","3","4","5","6","7","8","9">>

-----------------------------------------------------------------------------
(* String primitives *)

startsWith(s, pre) ==
  /\ Len(pre) <= Len(s)
  /\ SubSeq(s, 1, Len(pre)) = pre

\* index of the last occurrence of character c in s, 0 when absent
LastIndexOf(s, c) ==
  LET hits == { i \in 1..Len(s) : s[i] = c }
  IN IF hits = {} THEN 0 ELSE CHOOSE i \in hits : \A j \in hits : j <= i

\* TFile.name: the part after the last slash
FileName(path) == SubSeq(path, LastIndexOf(path, "/") + 1, Len(path))

\* TFile.extension: the part of the name after its last dot
FileExtension(path) ==
  LET n == FileName(path)
      d == LastIndexOf(n, ".")
  IN IF d = 0 THEN <<>> ELSE SubSeq(n, d + 1, Len(n))

\* String.prototype.trim on the blank character
RECURSIVE trimStart(_)
trimStart(s) ==
  IF s # <<>> /\ Head(s) = " " THEN trimStart(Tail(s)) ELSE s

RECURSIVE trimEnd(_)
trimEnd(s) ==
  IF s # <<>> /\ s[Len(s)] = " " THEN trimEnd(SubSeq(s, 1, Len(s) - 1)) ELSE s

trim(s) == trimEnd(trimStart(s))

\* String.prototype.split(","): always at least one piece
RECURSIVE split(_, _)
split(s, sep) ==
  LET hits == { i \in 1..Len(s) : s[i] = sep }
  IN IF hits = {} THEN << s >>
     ELSE LET i == CHOOSE k \in hits : \A j \in hits : k <= j
          IN << SubSeq(s, 1, i - 1) >> \o split(SubSeq(s, i + 1, Len(s)), sep)

\* normalizePath: slashes collapsed, no leading or trailing slash
RECURSIVE collapseSlashes(_)
collapseSlashes(s) ==
  IF Len(s) < 2 THEN s
  ELSE IF s[1] = "/" /\ s[2] = "/" THEN collapseSlashes(Tail(s))
  ELSE << s[1] >> \o collapseSlashes(Tail(s))

normalizePath(s) ==
  LET c == collapseSlashes(s)
      a == IF c # <<>> /\ Head(c) = "/" THEN Tail(c) ELSE c
  IN IF a # <<>> /\ a[Len(a)] = "/" THEN SubSeq(a, 1, Len(a) - 1) ELSE a

\* the day as getToday() renders it into a file name
DayString(d) == << DigitChars[(d \div 10) + 1], DigitChars[(d % 10) + 1] >>

BasePath(folder) == normalizePath(folder \o <<"/">> \o BaseName)

DeltaPath(folder, d) ==
  normalizePath(folder \o <<"/">> \o DeltaPrefix \o DayString(d) \o JsonSuffix)

-----------------------------------------------------------------------------
(* IGNORE: compileIgnorePatterns and isIgnored *)

\* one pattern string -> a regular expression, as a sequence of atoms:
\* a literal character (the specials . + ^ $ { } ( ) | [ ] \ are escaped, so
\* they are literals too), or "any" for the .* a star of a user pattern
\* turns into.  The strings of the model hold no ? and no star in a folder.
RegexOf(pattern, wildcards) ==
  [ i \in 1..Len(pattern) |->
      IF wildcards /\ pattern[i] = "*"
        THEN [k |-> "any", c |-> "*"]
        ELSE [k |-> "lit", c |-> pattern[i]] ]

\* RegExp.test of ^regex against s: a match of the whole regex at the start
RECURSIVE RegexTest(_, _)
RegexTest(regex, s) ==
  IF regex = <<>> THEN TRUE
  ELSE IF Head(regex).k = "any"
    THEN \E n \in 0..Len(s) : RegexTest(Tail(regex), SubSeq(s, n + 1, Len(s)))
    ELSE /\ s # <<>>
         /\ Head(s) = Head(regex).c
         /\ RegexTest(Tail(regex), Tail(s))

SelectNonEmpty(pieces) == SelectSeq(pieces, LAMBDA p : p # <<>>)

compileIgnorePatterns(st) ==
  LET own == IF st.snapshotFolder # <<>>
               THEN << RegexOf(st.snapshotFolder, FALSE) >>
               ELSE <<>>
      pieces == split(st.ignoredFolders, ",")
      trimmed == [ i \in 1..Len(pieces) |-> trim(pieces[i]) ]
      kept == SelectNonEmpty(trimmed)
      user == IF st.ignoredFolders # <<>>
                THEN [ i \in 1..Len(kept) |-> RegexOf(kept[i], TRUE) ]
                ELSE <<>>
  IN own \o user

\* isIgnored, with this.ignorePatterns as a parameter
isIgnored(patterns, path) ==
  \E i \in 1..Len(patterns) : RegexTest(patterns[i], path)

-----------------------------------------------------------------------------
(* FILE STATE *)

\* sha1 digest: one value per content, never empty
hashContent(content) == << "sha1", content >>

\* TFile.stat.size
StatSize(content) == Len(content)

\* variant: the extension test is missing, every file is read and hashed
buildFileState_alwaysHash(fs, path) ==
  LET file == fs[path]
  IN IF file.readable
       THEN [path |-> path, mtime |-> file.mtime, size |-> StatSize(file.content),
             hash |-> hashContent(file.content)]
       ELSE [path |-> path, mtime |-> file.mtime, size |-> StatSize(file.content)]

\* buildFileState: hash only for text extensions, and only when vault.read
\* succeeds (the catch of line 230 leaves hash undefined)
buildFileState(fs, path) ==
  LET file == fs[path]
      core == [path |-> path, mtime |-> file.mtime, size |-> StatSize(file.content)]
  IN IF FileExtension(path) \in TEXT_EXTENSIONS /\ file.readable
       THEN [path |-> path, mtime |-> file.mtime, size |-> StatSize(file.content),
             hash |-> hashContent(file.content)]
       ELSE core

-----------------------------------------------------------------------------
(* JSON.stringify and JSON.parse of the three record types.                *)
(* A JSON text is a sequence of <<key, value>> members; the empty string   *)
(* is the empty sequence and does not parse.                               *)

RECURSIVE SetToSeq(_)
SetToSeq(S) ==
  IF S = {} THEN <<>>
  ELSE LET x == CHOOSE y \in S : TRUE
       IN << x >> \o SetToSeq(S \ {x})

EmptyState == [ p \in {} |-> 0 ]

stringifyFileState(f) ==
  << <<"path", f.path>>, <<"mtime", f.mtime>>, <<"size", f.size>> >>
    \o (IF "hash" \in DOMAIN f THEN << <<"hash", f.hash>> >> ELSE <<>>)

parseFileState(t) ==
  IF Len(t) = 4
    THEN [path |-> t[1][2], mtime |-> t[2][2], size |-> t[3][2], hash |-> t[4][2]]
    ELSE [path |-> t[1][2], mtime |-> t[2][2], size |-> t[3][2]]

stringifyFiles(files) ==
  LET keys == SetToSeq(DOMAIN files)
  IN [ i \in 1..Len(keys) |-> << keys[i], stringifyFileState(files[keys[i]]) >> ]

parseFiles(t) ==
  LET keys == { t[i][1] : i \in 1..Len(t) }
  IN [ p \in keys |->
         LET i == CHOOSE j \in 1..Len(t) :
                    t[j][1] = p /\ \A m \in 1..Len(t) : t[m][1] = p => m <= j
         IN parseFileState(t[i][2]) ]

stringifyBase(base) ==
  << <<"createdAt", base.createdAt>>, <<"files", stringifyFiles(base.files)>> >>

parseBase(t) == [createdAt |-> t[1][2], files |-> parseFiles(t[2][2])]

stringifyStates(states) ==
  [ i \in 1..Len(states) |-> stringifyFileState(states[i]) ]

parseStates(t) == [ i \in 1..Len(t) |-> parseFileState(t[i]) ]

stringifyDelta(delta) ==
  << <<"createdAt", delta.createdAt>>,
     <<"added", stringifyStates(delta.added)>>,
     <<"modified", stringifyStates(delta.modified)>>,
     <<"removed", delta.removed>> >>

parseDelta(t) ==
  [createdAt |-> t[1][2], added |-> parseStates(t[2][2]),
   modified |-> parseStates(t[3][2]), removed |-> t[4][2]]

\* JSON.parse throws on the empty string
parses(text) == text # <<>>

-----------------------------------------------------------------------------
(* The host's file listing *)

\* the files the delta filter of the code selects
deltaFiles(fs, folder) ==
  { p \in DOMAIN fs : startsWith(p, folder) /\ startsWith(FileName(p), DeltaPrefix) }

RECURSIVE OldestFirst(_, _)
OldestFirst(fs, S) ==
  IF S = {} THEN <<>>
  ELSE LET x == CHOOSE y \in S : \A z \in S : fs[y].mtime <= fs[z].mtime
       IN << x >> \o OldestFirst(fs, S \ {x})

Reverse(seq) == [ i \in 1..Len(seq) |-> seq[Len(seq) + 1 - i] ]

\* vault.getFiles() promises no order: the listing is oldest first or newest first
ListingOrders == {"oldestFirst", "newestFirst"}

getFiles(fs, S, order) ==
  IF order = "oldestFirst" THEN OldestFirst(fs, S) ELSE Reverse(OldestFirst(fs, S))

-----------------------------------------------------------------------------
(* STATE REBUILD *)

\* variant: the sort is left out
sortByMtime_unsorted(fs, seq) == seq

\* Array.prototype.sort((a, b) => a.stat.mtime - b.stat.mtime): stable
RECURSIVE sortByMtime(_, _)
sortByMtime(fs, seq) ==
  IF seq = <<>> THEN <<>>
  ELSE LET rest == sortByMtime(fs, Tail(seq))
           x == Head(seq)
           before == { i \in 1..Len(rest) : fs[rest[i]].mtime < fs[x].mtime }
           n == Cardinality(before)
       IN SubSeq(rest, 1, n) \o << x >> \o SubSeq(rest, n + 1, Len(rest))

\* state[f.path] = f
upsert(state, f) == (f.path :> f) @@ state

RECURSIVE upsertAll(_, _)
upsertAll(state, seq) ==
  IF seq = <<>> THEN state ELSE upsertAll(upsert(state, Head(seq)), Tail(seq))

\* delete state[r] for every r of seq
removeAll(state, seq) ==
  [ p \in DOMAIN state \ { seq[i] : i \in 1..Len(seq) } |-> state[p] ] @@ EmptyState

applyDelta(state, delta) ==
  removeAll(upsertAll(upsertAll(state, delta.added), delta.modified), delta.removed)

\* the loop of lines 202-209.  (TLC evaluates arguments lazily: the test on
\* next has each delta applied before the recursion descends.)
RECURSIVE replay(_, _, _)
replay(fs, state, deltas) ==
  IF deltas = <<>> THEN state
  ELSE LET next == applyDelta(state, parseDelta(fs[Head(deltas)].content))
       IN IF DOMAIN next = {} THEN replay(fs, EmptyState, Tail(deltas))
          ELSE replay(fs, next, Tail(deltas))

\* variant: the deltas are applied in the order of the listing
replayOrder_listing(fs, folder, order) ==
  getFiles(fs, deltaFiles(fs, folder), order)

\* the delta files in the order rebuildCurrentState applies them
replayOrder(fs, folder, order) ==
  sortByMtime(fs, getFiles(fs, deltaFiles(fs, folder), order))

\* rebuildCurrentState: [ok, state]; ok is FALSE when it throws (no base file,
\* or a base or delta that does not parse)
rebuildCurrentState(fs, folder, order) ==
  LET basePath == BasePath(folder)
      deltas == replayOrder(fs, folder, order)
      ok == /\ basePath \in DOMAIN fs
            /\ parses(fs[basePath].content)
            /\ \A i \in 1..Len(deltas) : parses(fs[deltas[i]].content)
  IN IF ok
       THEN [ok |-> TRUE,
             state |-> replay(fs, parseBase(fs[basePath].content).files, deltas)]
       ELSE [ok |-> FALSE, state |-> EmptyState]

-----------------------------------------------------------------------------
(* BASE CREATION and DELTA CREATION: the records they assemble *)

\* variant: the ignore filter is left out
trackedFiles_all(fs, patterns) == DOMAIN fs

\* the files of the listing that pass the ignore filter
trackedFiles(fs, patterns) == { p \in DOMAIN fs : ~ isIgnored(patterns, p) }

\* variant: a file whose read fails is left out of the base
scanBase_skipUnreadable(fs, patterns, now) ==
  [createdAt |-> now,
   files |-> [ p \in { q \in trackedFiles(fs, patterns) : fs[q].readable }
                 |-> buildFileState(fs, p) ]]

\* createBase, lines 81-90
scanBase(fs, patterns, now) ==
  [createdAt |-> now,
   files |-> [ p \in trackedFiles(fs, patterns) |-> buildFileState(fs, p) ]]

\* variant: the else of line 125 is missing, a new file is compared as well
scanDelta_noElse(previousState, fs, patterns, now) ==
  LET currentMap == trackedFiles(fs, patterns)
      current == SetToSeq(currentMap)
      isAdded(p) == p \notin DOMAIN previousState
      isModified(p) == p \notin DOMAIN previousState
                         \/ previousState[p].mtime # fs[p].mtime
      addedPaths == SelectSeq(current, isAdded)
      modifiedPaths == SelectSeq(current, isModified)
      isRemoved(p) == p \notin currentMap
  IN [createdAt |-> now,
      added |-> [ i \in 1..Len(addedPaths) |-> buildFileState(fs, addedPaths[i]) ],
      modified |-> [ i \in 1..Len(modifiedPaths) |-> buildFileState(fs, modifiedPaths[i]) ],
      removed |-> SelectSeq(SetToSeq(DOMAIN previousState), isRemoved)]

\* variant: a file is modified when its mtime or its size differs
scanDelta_bySize(previousState, fs, patterns, now) ==
  LET currentMap == trackedFiles(fs, patterns)
      current == SetToSeq(currentMap)
      isAdded(p) == p \notin DOMAIN previousState
      isModified(p) == /\ p \in DOMAIN previousState
                       /\ \/ previousState[p].mtime # fs[p].mtime
                          \/ previousState[p].size # StatSize(fs[p].content)
      addedPaths == SelectSeq(current, isAdded)
      modifiedPaths == SelectSeq(current, isModified)
      isRemoved(p) == p \notin currentMap
  IN [createdAt |-> now,
      added |-> [ i \in 1..Len(addedPaths) |-> buildFileState(fs, addedPaths[i]) ],
      modified |-> [ i \in 1..Len(modifiedPaths) |-> buildFileState(fs, modifiedPaths[i]) ],
      removed |-> SelectSeq(SetToSeq(DOMAIN previousState), isRemoved)]

\* createDelta, lines 106-128
scanDelta(previousState, fs, patterns, now) ==
  LET currentMap == trackedFiles(fs, patterns)
      current == SetToSeq(currentMap)
      isAdded(p) == p \notin DOMAIN previousState
      isModified(p) == p \in DOMAIN previousState /\ previousState[p].mtime # fs[p].mtime
      addedPaths == SelectSeq(current, isAdded)
      modifiedPaths == SelectSeq(current, isModified)
      isRemoved(p) == p \notin currentMap
  IN [createdAt |-> now,
      added |-> [ i \in 1..Len(addedPaths) |-> buildFileState(fs, addedPaths[i]) ],
      modified |-> [ i \in 1..Len(modifiedPaths) |-> buildFileState(fs, modifiedPaths[i]) ],
      removed |-> SelectSeq(SetToSeq(DOMAIN previousState), isRemoved)]

\* variant: an empty delta is written like any other
isNoop_never(delta) == FALSE

\* createDelta, line 130
isNoop(delta) == delta.added = <<>> /\ delta.modified = <<>> /\ delta.removed = <<>>

-----------------------------------------------------------------------------
(* The file system *)

writeFile(fs, path, now, content) ==
  [ p \in DOMAIN fs \cup {path} |->
      IF p = path THEN [mtime |-> now, content |-> content, readable |-> TRUE]
      ELSE fs[p] ]

deleteFile(fs, path) == [ p \in DOMAIN fs \ {path} |-> fs[p] ]

otherContent(c) == IF c = ContentX THEN ContentY ELSE ContentX

-----------------------------------------------------------------------------------------------------------------------------------------------------
(* The initial store and its history.  The vault starts on day 1 with two  *)
(* files and no snapshot.  Consolidation needs CONSOLIDATION_THRESHOLD     *)
(* deltas, one per day, so a behaviour either explores freely from day 1,  *)
(* or first lives through a history of uneventful days: each day the notes *)
(* file is edited and the controller runs to completion (on the last day   *)
(* the image is deleted too), which leaves a base and                      *)
(* CONSOLIDATION_THRESHOLD - 1 deltas, one short of consolidation.         *)

StoreFolder == <<"s">>

InitialSettings == [DEFAULT_SETTINGS EXCEPT !.snapshotFolder = StoreFolder]

FreshVault ==
  [ p \in UserPaths |-> [mtime |-> 1, content |-> ContentX, readable |-> TRUE] ]

HistoryDays == CONSOLIDATION_THRESHOLD

\* one complete run of the controller on day d over file system fs:
\* runDeltaIfNeeded with no fault, below the consolidation threshold
RunOnce(fs, st, d) ==
  LET patterns == compileIgnorePatterns(st)
      folder == st.snapshotFolder
      r == rebuildCurrentState(fs, folder, "oldestFirst")
      delta == scanDelta(r.state, fs, patterns, d)
  IN IF DeltaPath(folder, d) \in DOMAIN fs THEN fs
     ELSE IF BasePath(folder) \notin DOMAIN fs
       THEN writeFile(fs, BasePath(folder), d, stringifyBase(scanBase(fs, patterns, d)))
       ELSE IF isNoop(delta) THEN fs
       ELSE writeFile(fs, DeltaPath(folder, d), d, stringifyDelta(delta))

-----------------------------------------------------------------------------
(* Invocations of the controller *)

Invocations == {1, 2}

\* the store's files and what they hold
storeFiles(fs, folder) ==
  IF folder = <<>> THEN {}
  ELSE { p \in DOMAIN fs : p = BasePath(folder) \/ p \in deltaFiles(fs, folder) }

IdleInvocation ==
  [pc |-> "idle", today |-> 0, folder |-> <<>>, deltaPath |-> <<>>,
   base |-> <<>>, previousState |-> EmptyState, delta |-> <<>>,
   deltas |-> <<>>, rebuilt |-> EmptyState,
   startVault |-> EmptyState, startPatterns |-> <<>>, at |-> "none",
   result |-> "none",
   wroteBase |-> FALSE, wroteDelta |-> FALSE, consolidating |-> FALSE]

Init ==
  /\ settings = InitialSettings
  /\ ignorePatterns = compileIgnorePatterns(InitialSettings)
  /\ inv = [ i \in Invocations |-> IdleInvocation ]
  /\ vault = FreshVault
  /\ folders = {}
  /\ today = 1
  /\ \E phase \in {"live", "history"} :
       hist = [phase |-> phase, writtenDays |-> {}, writtenWith |-> EmptyState,
               created |-> EmptyState, writes |-> 0,
               days |-> 0, events |-> 0]

-----------------------------------------------------------------------------
(* CONTROLLER: runDeltaIfNeeded, one action per stretch between two awaits *)

\* the store is in use: its history, if any, has been laid down
Live == hist.phase = "live"

Goto(i, me) == inv' = [inv EXCEPT ![i] = me]

Throw(i) == Goto(i, [inv[i] EXCEPT !.pc = "error", !.at = inv[i].pc])

\* lines 54-58: getToday, the folder check, the call of ensureFolder
start(i) ==
  LET folder == settings.snapshotFolder
      me == [IdleInvocation EXCEPT !.today = today, !.folder = folder,
                                   !.startVault = vault,
                                   !.startPatterns = ignorePatterns]
  IN IF folder = <<>>
       THEN Goto(i, [me EXCEPT !.pc = "done", !.result = "nofolder"])
       ELSE Goto(i, [me EXCEPT !.pc = "ensureFolder"])

\* runDeltaIfNeeded is called (onLayoutReady, line 45)
runDeltaIfNeeded(i) ==
  /\ Live
  /\ inv[i].pc = "idle"
  /\ start(i)
  /\ UNCHANGED <<vault, folders, settings, ignorePatterns, today, hist>>

\* variant: the delta-for-today check is left out
deltaForTodayExists_never(fs, deltaPath) == FALSE

\* line 61: a delta for today is already there
deltaForTodayExists(fs, deltaPath) == deltaPath \in DOMAIN fs

\* ensureFolder, then lines 60-72: the delta-for-today check and the base check
ensureFolder(i) ==
  /\ inv[i].pc = "ensureFolder"
  /\ folders' = folders \cup {inv[i].folder}
  /\ LET deltaPath == DeltaPath(inv[i].folder, inv[i].today)
         me == [inv[i] EXCEPT !.deltaPath = deltaPath]
     IN IF deltaForTodayExists(vault, deltaPath)
          THEN Goto(i, [me EXCEPT !.pc = "done", !.result = "skipped"])
          ELSE IF BasePath(inv[i].folder) \notin DOMAIN vault
            THEN Goto(i, [me EXCEPT !.pc = "createBase"])
            ELSE Goto(i, [me EXCEPT !.pc = "createDelta"])
  /\ UNCHANGED <<vault, settings, ignorePatterns, today, hist>>

\* createBase, lines 81-94: the scan, then the lookup of base.json
createBase(i) ==
  /\ inv[i].pc = "createBase"
  /\ LET path == BasePath(settings.snapshotFolder)
         me == [inv[i] EXCEPT !.base = scanBase(vault, ignorePatterns, today)]
     IN IF path \in DOMAIN vault
          THEN Goto(i, [me EXCEPT !.pc = "createBase_modify"])
          ELSE Goto(i, [me EXCEPT !.pc = "createBase_create"])
  /\ UNCHANGED <<vault, folders, settings, ignorePatterns, today, hist>>

\* createBase, line 95: vault.create(path, "")
createBase_create(i) ==
  /\ inv[i].pc = "createBase_create"
  /\ LET path == BasePath(settings.snapshotFolder)
     IN IF path \in DOMAIN vault
          THEN /\ Throw(i)
               /\ UNCHANGED <<vault, hist>>
          ELSE /\ vault' = writeFile(vault, path, today, <<>>)
               /\ hist' = [hist EXCEPT !.writtenWith =
                             [ p \in DOMAIN @ \cup {path} |->
                                 IF p = path THEN ignorePatterns ELSE @[p] ]]
               /\ Goto(i, [inv[i] EXCEPT !.pc = "createBase_modify"])
  /\ UNCHANGED <<folders, settings, ignorePatterns, today>>

\* createBase, lines 93-97: vault.modify(file, JSON.stringify(base))
createBase_modify(i) ==
  /\ inv[i].pc = "createBase_modify"
  /\ LET path == BasePath(settings.snapshotFolder)
     IN /\ vault' = writeFile(vault, path, today, stringifyBase(inv[i].base))
        /\ hist' = [hist EXCEPT !.writtenWith =
                      [ p \in DOMAIN @ \cup {path} |->
                          IF p = path THEN ignorePatterns ELSE @[p] ]]
  /\ Goto(i, [inv[i] EXCEPT !.pc = "done", !.result = "baseCreated",
                             !.wroteBase = TRUE])
  /\ UNCHANGED <<folders, settings, ignorePatterns, today>>

\* variant: a store that does not parse is taken for an empty previous state
createDelta_lenient(i) ==
  /\ inv[i].pc = "createDelta"
  /\ \E order \in ListingOrders :
       LET r == rebuildCurrentState(vault, settings.snapshotFolder, order)
       IN Goto(i, [inv[i] EXCEPT !.pc = "createDelta_scan",
                                 !.previousState = r.state])
  /\ UNCHANGED <<vault, folders, settings, ignorePatterns, today, hist>>

\* createDelta, line 105: previousState = await rebuildCurrentState()
createDelta(i) ==
  /\ inv[i].pc = "createDelta"
  /\ \E order \in ListingOrders :
       LET r == rebuildCurrentState(vault, settings.snapshotFolder, order)
       IN IF r.ok
            THEN Goto(i, [inv[i] EXCEPT !.pc = "createDelta_scan",
                                       !.previousState = r.state])
            ELSE Throw(i)
  /\ UNCHANGED <<vault, folders, settings, ignorePatterns, today, hist>>

\* createDelta, lines 106-137: the comparison and the no-op return
createDelta_scan(i) ==
  /\ inv[i].pc = "createDelta_scan"
  /\ LET delta == scanDelta(inv[i].previousState, vault, ignorePatterns, today)
     IN IF isNoop(delta)
          THEN Goto(i, [inv[i] EXCEPT !.pc = "maybeConsolidate"])
          ELSE Goto(i, [inv[i] EXCEPT !.pc = "createDelta_write", !.delta = delta])
  /\ UNCHANGED <<vault, folders, settings, ignorePatterns, today, hist>>

\* createDelta, line 139: vault.create(deltaPath, JSON.stringify(delta))
createDelta_write(i) ==
  /\ inv[i].pc = "createDelta_write"
  /\ LET path == inv[i].deltaPath
     IN IF path \in DOMAIN vault
          THEN /\ Throw(i)
               /\ UNCHANGED <<vault, hist>>
          ELSE /\ vault' = writeFile(vault, path, today, stringifyDelta(inv[i].delta))
               /\ hist' = [hist EXCEPT
                    !.writtenDays = @ \cup {inv[i].today},
                    !.writtenWith = [ p \in DOMAIN @ \cup {path} |->
                                        IF p = path THEN ignorePatterns ELSE @[p] ],
                    !.created = [ p \in DOMAIN @ \cup {path} |->
                                    IF p = path THEN hist.writes + 1 ELSE @[p] ],
                    !.writes = @ + 1]
               /\ Goto(i, [inv[i] EXCEPT !.pc = "maybeConsolidate",
                                          !.wroteDelta = TRUE])
  /\ UNCHANGED <<folders, settings, ignorePatterns, today>>

\* variant: the threshold test is <=, consolidation waits for one delta more
maybeConsolidate_offByOne(i) ==
  /\ inv[i].pc = "maybeConsolidate"
  /\ \E order \in ListingOrders :
       LET folder == settings.snapshotFolder
           deltas == getFiles(vault, deltaFiles(vault, folder), order)
       IN IF Len(deltas) <= CONSOLIDATION_THRESHOLD
            THEN Goto(i, [inv[i] EXCEPT !.pc = "done", !.result = "belowThreshold"])
            ELSE Goto(i, [inv[i] EXCEPT !.pc = "maybeConsolidate_rebuild",
                                       !.deltas = deltas])
  /\ UNCHANGED <<vault, folders, settings, ignorePatterns, today, hist>>

\* maybeConsolidate, lines 152-157: the listing and the threshold
maybeConsolidate(i) ==
  /\ inv[i].pc = "maybeConsolidate"
  /\ \E order \in ListingOrders :
       LET folder == settings.snapshotFolder
           deltas == getFiles(vault, deltaFiles(vault, folder), order)
       IN IF Len(deltas) < CONSOLIDATION_THRESHOLD
            THEN Goto(i, [inv[i] EXCEPT !.pc = "done", !.result = "belowThreshold"])
            ELSE Goto(i, [inv[i] EXCEPT !.pc = "maybeConsolidate_rebuild",
                                       !.deltas = deltas])
  /\ UNCHANGED <<vault, folders, settings, ignorePatterns, today, hist>>

\* variant: the deltas are deleted first, the base is not yet written
maybeConsolidate_rebuild_deleteFirst(i) ==
  /\ inv[i].pc = "maybeConsolidate_rebuild"
  /\ \E order \in ListingOrders :
       LET r == rebuildCurrentState(vault, settings.snapshotFolder, order)
       IN IF r.ok
            THEN Goto(i, [inv[i] EXCEPT !.pc = "maybeConsolidate_delete",
                                       !.rebuilt = r.state,
                                       !.consolidating = TRUE])
            ELSE Throw(i)
  /\ UNCHANGED <<vault, folders, settings, ignorePatterns, today, hist>>

\* maybeConsolidate, line 159: rebuilt = await rebuildCurrentState()
maybeConsolidate_rebuild(i) ==
  /\ inv[i].pc = "maybeConsolidate_rebuild"
  /\ \E order \in ListingOrders :
       LET r == rebuildCurrentState(vault, settings.snapshotFolder, order)
       IN IF r.ok
            THEN Goto(i, [inv[i] EXCEPT !.pc = "maybeConsolidate_write",
                                       !.rebuilt = r.state,
                                       !.consolidating = TRUE])
            ELSE Throw(i)
  /\ UNCHANGED <<vault, folders, settings, ignorePatterns, today, hist>>

\* variant: the new base holds the state rebuilt before today's delta
newBase_stale(me, now) == [createdAt |-> now, files |-> me.previousState]

\* maybeConsolidate, lines 161-164: the new base holds the rebuilt state
newBase(me, now) == [createdAt |-> now, files |-> me.rebuilt]

\* maybeConsolidate, lines 166-174: the new base replaces base.json
maybeConsolidate_write(i) ==
  /\ inv[i].pc = "maybeConsolidate_write"
  /\ LET path == BasePath(settings.snapshotFolder)
     IN /\ vault' = writeFile(vault, path, today, stringifyBase(newBase(inv[i], today)))
        /\ hist' = [hist EXCEPT !.writtenWith =
                      [ p \in DOMAIN @ \cup {path} |->
                          IF p = path THEN ignorePatterns ELSE @[p] ]]
  /\ Goto(i, [inv[i] EXCEPT !.pc = "maybeConsolidate_delete", !.wroteBase = TRUE])
  /\ UNCHANGED <<folders, settings, ignorePatterns, today>>

\* maybeConsolidate, lines 176-180: one vault.delete of the loop
maybeConsolidate_delete(i) ==
  /\ inv[i].pc = "maybeConsolidate_delete"
  /\ LET path == Head(inv[i].deltas)
         rest == Tail(inv[i].deltas)
     IN IF path \notin DOMAIN vault
          THEN /\ Throw(i)
               /\ UNCHANGED <<vault, hist>>
          ELSE /\ vault' = deleteFile(vault, path)
               /\ hist' = [hist EXCEPT
                    !.writtenWith = [ p \in DOMAIN @ \ {path} |-> @[p] ],
                    !.created = [ p \in DOMAIN @ \ {path} |-> @[p] ]]
               /\ IF rest = <<>>
                    THEN Goto(i, [inv[i] EXCEPT !.pc = "done", !.deltas = rest,
                                               !.result = "consolidated"])
                    ELSE Goto(i, [inv[i] EXCEPT !.deltas = rest])
  /\ UNCHANGED <<folders, settings, ignorePatterns, today>>

WritePcs == {"createBase_create", "createBase_modify", "createDelta_write",
             "maybeConsolidate_write", "maybeConsolidate_delete"}

RunningPcs == {"ensureFolder", "createBase", "createDelta", "createDelta_scan",
               "maybeConsolidate", "maybeConsolidate_rebuild"} \cup WritePcs

EndedPcs == {"done", "error", "crashed"}

\* a storage write (create, modify, delete) rejects: the invocation throws
StorageWriteFails(i) ==
  /\ inv[i].pc \in WritePcs
  /\ hist.events < MaxEvents
  /\ Throw(i)
  /\ hist' = [hist EXCEPT !.events = @ + 1]
  /\ UNCHANGED <<vault, folders, settings, ignorePatterns, today>>

\* the host terminates the process while the invocation waits on an await
Interrupt(i) ==
  /\ inv[i].pc \in RunningPcs
  /\ hist.events < MaxEvents
  /\ Goto(i, [inv[i] EXCEPT !.pc = "crashed", !.at = inv[i].pc])
  /\ hist' = [hist EXCEPT !.events = @ + 1]
  /\ UNCHANGED <<vault, folders, settings, ignorePatterns, today>>

\* the invocation is over: its locals are gone
Return(i) ==
  /\ inv[i].pc \in EndedPcs
  /\ Goto(i, IdleInvocation)
  /\ UNCHANGED <<vault, folders, settings, ignorePatterns, today, hist>>

-----------------------------------------------------------------------------
(* The environment, between invocations *)

Quiescent == Live /\ \A i \in Invocations : inv[i].pc = "idle"

Change ==
  /\ Quiescent
  /\ hist.events < MaxEvents
  /\ hist' = [hist EXCEPT !.events = @ + 1]

NextDay ==
  /\ Quiescent
  /\ hist.days < MaxDays
  /\ today' = today + 1
  /\ hist' = [hist EXCEPT !.days = @ + 1]
  /\ UNCHANGED <<vault, folders, settings, ignorePatterns, inv>>

\* the user creates or edits a file: new content, mtime of now
UserWrite(p) ==
  /\ Change
  /\ p \in DOMAIN vault => vault[p].mtime # today
  /\ vault' = writeFile(vault, p, today,
                        IF p \in DOMAIN vault THEN otherContent(vault[p].content)
                                              ELSE ContentX)
  /\ UNCHANGED <<folders, settings, ignorePatterns, today, inv>>

\* the content changes and the mtime is kept (a sync or restore tool)
UserEditKeepMtime(p) ==
  /\ Change
  /\ p \in DOMAIN vault
  /\ vault' = writeFile(vault, p, vault[p].mtime, otherContent(vault[p].content))
  /\ UNCHANGED <<folders, settings, ignorePatterns, today, inv>>

UserDelete(p) ==
  /\ Change
  /\ p \in DOMAIN vault
  /\ vault' = deleteFile(vault, p)
  /\ UNCHANGED <<folders, settings, ignorePatterns, today, inv>>

\* vault.read of the file rejects from now on (a lock, a permission, an I/O
\* error); the next write of the file makes it readable again
ReadFails(p) ==
  /\ Change
  /\ p \in DOMAIN vault
  /\ vault[p].readable
  /\ vault' = [vault EXCEPT ![p].readable = FALSE]
  /\ UNCHANGED <<folders, settings, ignorePatterns, today, inv>>

\* the content of the newest delta file is lost (a disk or sync fault): the
\* file is there, with its mtime, and holds the empty text
DeltaTruncated ==
  /\ Change
  /\ \E f \in deltaFiles(vault, StoreFolder) :
       /\ \A g \in deltaFiles(vault, StoreFolder) : vault[g].mtime <= vault[f].mtime
       /\ parses(vault[f].content)
       /\ vault' = [vault EXCEPT ![f].content = <<>>]
  /\ UNCHANGED <<folders, settings, ignorePatterns, today, inv>>

\* the operator removes base.json to have the base recreated
OperatorDeletesBase ==
  /\ Change
  /\ BasePath(StoreFolder) \in DOMAIN vault
  /\ vault' = deleteFile(vault, BasePath(StoreFolder))
  /\ UNCHANGED <<folders, settings, ignorePatterns, today, inv>>

\* loadSettings: the plugin is loaded with another data.json
loadSettings(ignored) ==
  /\ Change
  /\ ignored # settings.ignoredFolders
  /\ LET st == [DEFAULT_SETTINGS EXCEPT !.snapshotFolder = settings.snapshotFolder,
                                         !.ignoredFolders = ignored]
     IN /\ settings' = st
        /\ ignorePatterns' = compileIgnorePatterns(st)
  /\ UNCHANGED <<vault, folders, today, inv>>

\* the setting tab's onChange: snapshotFolder = value.trim(), then saveSettings
saveSettings(value) ==
  /\ Change
  /\ trim(value) # settings.snapshotFolder
  /\ LET st == [settings EXCEPT !.snapshotFolder = trim(value)]
     IN /\ settings' = st
        /\ ignorePatterns' = compileIgnorePatterns(st)
  /\ UNCHANGED <<vault, folders, today, inv>>

-----------------------------------------------------------------------------
(* A day of the history: on day 1 the controller creates the base; on each *)
(* later day the notes file is edited, the controller runs to completion   *)
(* and writes that day's delta.                                            *)

HistoryDay ==
  /\ hist.phase = "history"
  /\ LET first == BasePath(StoreFolder) \notin DOMAIN vault
         d == IF first THEN today ELSE today + 1
         edited == writeFile(vault, PathA, d, otherContent(vault[PathA].content))
         live == IF first THEN vault
                 ELSE IF d = HistoryDays THEN deleteFile(edited, PathB)
                 ELSE edited
         after == RunOnce(live, settings, d)
         written == DOMAIN after \ DOMAIN live
         deltaWritten == written \cap deltaFiles(after, StoreFolder)
     IN /\ today' = d
        /\ vault' = after
        /\ hist' = [hist EXCEPT
             !.phase = IF d = HistoryDays THEN "live" ELSE "history",
             !.writtenDays = IF deltaWritten = {} THEN @ ELSE @ \cup {d},
             !.writtenWith = [ p \in DOMAIN @ \cup written |->
                                 IF p \in written THEN ignorePatterns ELSE @[p] ],
             !.created = [ p \in DOMAIN @ \cup deltaWritten |->
                             IF p \in deltaWritten THEN hist.writes + 1 ELSE @[p] ],
             !.writes = IF deltaWritten = {} THEN @ ELSE @ + 1]
  /\ folders' = folders \cup {StoreFolder}
  /\ UNCHANGED <<settings, ignorePatterns, inv>>

-----------------------------------------------------------------------------
(* Specification: invocations run one at a time (section 5 of the design)  *)

Step(i) ==
  \/ runDeltaIfNeeded(i)
  \/ ensureFolder(i)
  \/ createBase(i)
  \/ createBase_create(i)
  \/ createBase_modify(i)
  \/ createDelta(i)
  \/ createDelta_scan(i)
  \/ createDelta_write(i)
  \/ maybeConsolidate(i)
  \/ maybeConsolidate_rebuild(i)
  \/ maybeConsolidate_write(i)
  \/ maybeConsolidate_delete(i)
  \/ StorageWriteFails(i)
  \/ Interrupt(i)
  \/ Return(i)

Environment ==
  \/ NextDay
  \/ \E p \in UserPaths : UserWrite(p)
  \/ \E p \in UserPaths : UserEditKeepMtime(p)
  \/ \E p \in UserPaths : UserDelete(p)
  \/ \E p \in UserPaths : ReadFails(p)
  \/ DeltaTruncated
  \/ OperatorDeletesBase
  \/ \E ignored \in IgnoreInputs : loadSettings(ignored)
  \/ \E value \in FolderInputs : saveSettings(value)

Next ==
  \/ Step(1)
  \/ Environment
  \/ HistoryDay

Spec == Init /\ [][Next]_vars

-----------------------------------------------------------------------------
(* Specification of overlapping invocations: runDeltaIfNeeded is started    *)
(* again (the plugin reloaded, the vault open in a second window) while an  *)
(* invocation waits on an await.  No storage fault, no interruption: what   *)
(* goes wrong here goes wrong by the overlap alone.                         *)

\* the first invocation starts with no other one under way
runDeltaIfNeededFirst ==
  /\ \A i \in Invocations : inv[i].pc = "idle"
  /\ runDeltaIfNeeded(1)

\* runDeltaIfNeeded is called while another invocation is under way.  The
\* call reads the date and the folder setting and awaits: made just after the
\* other invocation's call, it stands for a call made at any later await of
\* that invocation (the steps of the two interleave freely from here on).
runDeltaIfNeededAgain(i) ==
  /\ Live
  /\ inv[i].pc = "idle"
  /\ \E j \in Invocations : inv[j].pc = "ensureFolder"
  /\ hist.events < MaxEvents
  /\ start(i)
  /\ hist' = [hist EXCEPT !.events = @ + 1]
  /\ UNCHANGED <<vault, folders, settings, ignorePatterns, today>>

Overlapping(i) ==
  \/ runDeltaIfNeededAgain(i)
  \/ ensureFolder(i)
  \/ createBase(i)
  \/ createBase_create(i)
  \/ createBase_modify(i)
  \/ createDelta(i)
  \/ createDelta_scan(i)
  \/ createDelta_write(i)
  \/ maybeConsolidate(i)
  \/ maybeConsolidate_rebuild(i)
  \/ maybeConsolidate_write(i)
  \/ maybeConsolidate_delete(i)
  \/ Return(i)

OverlapEnvironment ==
  \/ NextDay
  \/ \E p \in UserPaths : UserWrite(p)

NextOverlap ==
  \/ runDeltaIfNeededFirst
  \/ \E i \in Invocations : Overlapping(i)
  \/ OverlapEnvironment
  \/ HistoryDay

SpecOverlap == Init /\ [][NextOverlap]_vars

-----------------------------------------------------------------------------
(* PROPERTIES *)

\* what rebuildCurrentState returns on the store as it is, under listing order o
Rebuilt(o) == rebuildCurrentState(vault, StoreFolder, o)

\* the store rebuilds to state s whatever the order of the listing
RebuildsTo(s) == \A o \in ListingOrders : Rebuilt(o).ok /\ Rebuilt(o).state = s

\* the paths of the three collections of the delta stored at f
addedPaths(f) ==
  LET d == parseDelta(vault[f].content)
  IN { d.added[k].path : k \in 1..Len(d.added) }

modifiedPaths(f) ==
  LET d == parseDelta(vault[f].content)
  IN { d.modified[k].path : k \in 1..Len(d.modified) }

removedPaths(f) ==
  LET d == parseDelta(vault[f].content)
  IN { d.removed[k] : k \in 1..Len(d.removed) }

basePaths(f) == DOMAIN parseBase(vault[f].content).files

\* the artifacts of the store that hold a document
Artifacts == { f \in storeFiles(vault, StoreFolder) : parses(vault[f].content) }

Deltas == Artifacts \cap deltaFiles(vault, StoreFolder)

\* invocation i ended before its end, at one of the positions pcs: the host
\* terminated it (crashed) or a storage write rejected (error)
StoppedAt(i, pcs) == inv[i].pc \in {"crashed", "error"} /\ inv[i].at \in pcs

\* the host terminated invocation i at one of the positions pcs
InterruptedAt(i, pcs) == inv[i].pc = "crashed" /\ inv[i].at \in pcs

\* the deltas invocation i still has to delete are all the deltas of the store
NoneDeleted(i) ==
  /\ inv[i].deltas # <<>>
  /\ { inv[i].deltas[k] : k \in 1..Len(inv[i].deltas) } = deltaFiles(vault, StoreFolder)
  /\ Len(inv[i].deltas) >= CONSOLIDATION_THRESHOLD

\* C1: after a consolidation that ran to its end, rebuildCurrentState on the
\* store (the new base, no delta left) returns the state that was rebuilt from
\* the old base and the deltas just before the consolidation.
C1_ConsolidationEquivalence ==
  \A i \in Invocations :
    (inv[i].pc = "done" /\ inv[i].result = "consolidated")
      => /\ deltaFiles(vault, StoreFolder) = {}
         /\ RebuildsTo(inv[i].rebuilt)

C1_Witness ==
  \E i \in Invocations :
    /\ inv[i].pc = "done" /\ inv[i].result = "consolidated"
    /\ inv[i].wroteDelta
    /\ inv[i].rebuilt # inv[i].previousState

\* C2: once a delta artifact was written for day d, no later step writes a
\* delta artifact for day d again (whether or not a consolidation ran).
C2_OneDeltaPerDay ==
  [][ \A d \in hist.writtenDays :
        DeltaPath(StoreFolder, d) \notin DOMAIN vault
          => DeltaPath(StoreFolder, d) \notin DOMAIN vault' ]_vars

\* a consolidation ran to its end and deleted today's delta; a later invocation
\* of the same day has written a delta for today again
C2_SecondDeltaAfterConsolidation ==
  \E i \in Invocations :
    /\ inv[i].pc = "maybeConsolidate" /\ inv[i].wroteDelta
    /\ deltaFiles(inv[i].startVault, StoreFolder) = {}
    /\ inv[i].today = HistoryDays + 1
    /\ hist.writes = HistoryDays + 1

\* C3 (as stated): no path ignored by the matcher in force when an artifact was
\* written appears in that artifact: not as a key of the base's files, not in
\* added, modified or removed of a delta.
C3_IgnoreEnforcement ==
  \A f \in Artifacts :
    LET listed == IF f = BasePath(StoreFolder) THEN basePaths(f)
                  ELSE addedPaths(f) \cup modifiedPaths(f) \cup removedPaths(f)
    IN \A p \in listed : ~ isIgnored(hist.writtenWith[f], p)

\* C3 (amended): no path ignored by the matcher in force when an artifact was
\* written appears as a key of the base's files or in added or modified of a
\* delta; removed may hold an ignored path.
C3_IgnoreEnforcementOfListedFiles ==
  \A f \in Artifacts :
    LET listed == IF f = BasePath(StoreFolder) THEN basePaths(f)
                  ELSE addedPaths(f) \cup modifiedPaths(f)
    IN \A p \in listed : ~ isIgnored(hist.writtenWith[f], p)

C3_Witness ==
  \E f \in Deltas :
    /\ addedPaths(f) \cup modifiedPaths(f) # {}
    /\ \E p \in UserPaths \cap DOMAIN vault : isIgnored(hist.writtenWith[f], p)

\* C4: when the consolidation stops after the base was written and before any
\* delta was deleted, the store (new base, all the old deltas) rebuilds to the
\* state the consolidation had rebuilt.
C4_InterruptedBeforeDeletion ==
  \A i \in Invocations :
    (StoppedAt(i, {"maybeConsolidate_delete"}) /\ NoneDeleted(i))
      => RebuildsTo(inv[i].rebuilt)

C4_Witness ==
  \E i \in Invocations :
    /\ inv[i].pc = "crashed" /\ inv[i].at = "maybeConsolidate_delete"
    /\ NoneDeleted(i)
    /\ inv[i].rebuilt # parseBase(inv[i].startVault[BasePath(StoreFolder)].content).files

\* C5: when the consolidation stops while it deletes the deltas, the store (new
\* base, the deltas not yet deleted) rebuilds to the state the consolidation
\* had rebuilt.
C5_InterruptedDuringDeletion ==
  \A i \in Invocations :
    InterruptedAt(i, {"maybeConsolidate_delete"}) => RebuildsTo(inv[i].rebuilt)

\* C6: when base creation is interrupted or one of its storage writes fails,
\* base.json is absent or holds a complete document, one the next invocation
\* parses.
C6_NoPartialBase ==
  \A i \in Invocations :
    StoppedAt(i, {"createBase", "createBase_create", "createBase_modify"})
      => (BasePath(StoreFolder) \in DOMAIN vault => parses(vault[BasePath(StoreFolder)].content))

\* the state the store held when invocation i started is the state of the vault
NoChangeAtStart(i) ==
  /\ inv[i].pc # "idle"
  /\ inv[i].folder = StoreFolder
  /\ LET r == rebuildCurrentState(inv[i].startVault, StoreFolder, "oldestFirst")
         live == trackedFiles(inv[i].startVault, inv[i].startPatterns)
     IN /\ r.ok
        /\ DOMAIN r.state = live
        /\ \A p \in live : r.state[p].mtime = inv[i].startVault[p].mtime

deltasOf(fs) == [ f \in deltaFiles(fs, StoreFolder) |-> fs[f] ]

\* C7 (as stated): when the rebuilt state matches the vault, the invocation
\* writes no delta and leaves the set of delta artifacts as it was.
C7_NoopSuppression ==
  \A i \in Invocations :
    NoChangeAtStart(i)
      => /\ ~ inv[i].wroteDelta
         /\ inv[i].pc # "createDelta_write"
         /\ deltasOf(vault) = deltasOf(inv[i].startVault)

\* C7 (amended): when the rebuilt state matches the vault, the invocation writes
\* no delta; it leaves the set of delta artifacts as it was unless it finds
\* CONSOLIDATION_THRESHOLD of them or more and consolidates.
C7_NoopSuppressionBelowThreshold ==
  \A i \in Invocations :
    NoChangeAtStart(i)
      => /\ ~ inv[i].wroteDelta
         /\ inv[i].pc # "createDelta_write"
         /\ Cardinality(deltaFiles(inv[i].startVault, StoreFolder)) < CONSOLIDATION_THRESHOLD
              => deltasOf(vault) = deltasOf(inv[i].startVault)

C7_Witness ==
  \E i \in Invocations :
    /\ NoChangeAtStart(i)
    /\ inv[i].pc = "done" /\ inv[i].result = "belowThreshold"
    /\ deltaFiles(vault, StoreFolder) # {}

\* C8: rebuildCurrentState applies the deltas in the order of their creation
\* (oldest first) whatever the order of the listing, and returns the same
\* mapping for every order of the listing of one store.
C8_ReplayInCreationOrder ==
  /\ \A o \in ListingOrders :
       LET seq == replayOrder(vault, StoreFolder, o)
       IN \A j \in 1..(Len(seq) - 1) :
            hist.created[seq[j]] < hist.created[seq[j + 1]]
  /\ Rebuilt("oldestFirst") = Rebuilt("newestFirst")

C8_Witness ==
  /\ Cardinality(deltaFiles(vault, StoreFolder)) >= 2
  /\ \A o \in ListingOrders : Rebuilt(o).ok
  /\ getFiles(vault, deltaFiles(vault, StoreFolder), "newestFirst")
       # replayOrder(vault, StoreFolder, "newestFirst")

\* C9: an invocation that finds a base and a delta for today returns after the
\* delta check: it never enters createBase, createDelta or maybeConsolidate and
\* the vault is as it was.
C9_IdempotentSkip ==
  \A i \in Invocations :
    ( /\ inv[i].pc # "idle"
      /\ inv[i].folder = StoreFolder
      /\ BasePath(StoreFolder) \in DOMAIN inv[i].startVault
      /\ DeltaPath(StoreFolder, inv[i].today) \in DOMAIN inv[i].startVault )
      => /\ inv[i].pc \in {"ensureFolder", "done", "crashed"}
         /\ inv[i].pc = "done" => inv[i].result = "skipped"
         /\ vault = inv[i].startVault

C9_Witness ==
  \E i \in Invocations :
    /\ inv[i].pc = "done" /\ inv[i].result = "skipped"
    /\ BasePath(StoreFolder) \in DOMAIN inv[i].startVault
    /\ vault = inv[i].startVault

\* the delta invocation i has written, as the store holds it
WrittenDelta(i) == parseDelta(vault[inv[i].deltaPath].content)

\* invocation i has written its delta and nothing has touched the store since
JustWroteDelta(i) ==
  /\ inv[i].pc = "maybeConsolidate"
  /\ inv[i].wroteDelta
  /\ inv[i].deltaPath \in Deltas

\* C12: in every delta artifact no path is both in added and in modified, and
\* no path of removed is in added or in modified.
C12_DeltaDisjointness ==
  \A f \in Deltas :
    /\ addedPaths(f) \cap modifiedPaths(f) = {}
    /\ removedPaths(f) \cap (addedPaths(f) \cup modifiedPaths(f)) = {}

C12_Witness ==
  \E i \in Invocations :
    /\ JustWroteDelta(i)
    /\ addedPaths(inv[i].deltaPath) # {}
    /\ modifiedPaths(inv[i].deltaPath) # {}

\* the file states invocation i has built and is about to write
BuiltStates(i) ==
  IF inv[i].pc \in {"createBase_create", "createBase_modify"}
    THEN { inv[i].base.files[p] : p \in DOMAIN inv[i].base.files }
  ELSE IF inv[i].pc = "createDelta_write"
    THEN { inv[i].delta.added[k] : k \in 1..Len(inv[i].delta.added) }
         \cup { inv[i].delta.modified[k] : k \in 1..Len(inv[i].delta.modified) }
  ELSE {}

\* the file states the artifacts of the store hold
StoredStates ==
  UNION { IF f = BasePath(StoreFolder)
            THEN LET b == parseBase(vault[f].content).files
                 IN { b[p] : p \in DOMAIN b }
            ELSE LET d == parseDelta(vault[f].content)
                 IN { d.added[k] : k \in 1..Len(d.added) }
                    \cup { d.modified[k] : k \in 1..Len(d.modified) }
        : f \in Artifacts }

HashableExtensions ==
  { <<"m","d">>, <<"t","x","t">>, <<"c","s","v">>, <<"j","s","o","n">>,
    <<"j","s">>, <<"t","s">>, <<"c","s","s">>, <<"h","t","m","l">>,
    <<"y","a","m","l">>, <<"y","m","l">> }

\* C13: a file state built for a base or a delta has no hash when the file's
\* extension is outside md, txt, csv, json, js, ts, css, html, yaml, yml, and
\* has a hash when the extension is in that set and the read succeeds; the
\* states the store holds for other extensions have no hash either.
C13_HashConditionality ==
  /\ \A i \in Invocations : \A f \in BuiltStates(i) :
       /\ FileExtension(f.path) \notin HashableExtensions => "hash" \notin DOMAIN f
       /\ (FileExtension(f.path) \in HashableExtensions /\ vault[f.path].readable)
            => "hash" \in DOMAIN f
  /\ \A f \in StoredStates :
       FileExtension(f.path) \notin HashableExtensions => "hash" \notin DOMAIN f

C13_Witness ==
  \E i \in Invocations :
    /\ inv[i].pc = "createDelta_write"
    /\ \E f, g \in BuiltStates(i) :
         /\ "hash" \in DOMAIN f
         /\ FileExtension(g.path) \notin HashableExtensions
         /\ "hash" \notin DOMAIN g

\* the live files that the matcher in force does not ignore
LiveTracked == { p \in DOMAIN vault : ~ isIgnored(ignorePatterns, p) }

\* the paths of a sequence of file states, and whether none occurs twice
PathsOf(states) == { states[k].path : k \in 1..Len(states) }

NoRepeat(seq) == \A j, k \in 1..Len(seq) : seq[j] = seq[k] => j = k

\* C14: the delta createDelta has written holds in removed exactly the paths of
\* the rebuilt previous state that are not live and tracked, in added exactly
\* the live tracked paths the previous state lacks, in modified exactly the
\* live tracked paths whose mtime differs from the recorded one; each once.  A
\* file with the recorded mtime is in none of them, whatever its content.
C14_DeltaClassification ==
  \A i \in Invocations :
    JustWroteDelta(i) =>
      LET d == WrittenDelta(i)
          prev == inv[i].previousState
      IN /\ \A o \in ListingOrders :
              rebuildCurrentState(inv[i].startVault, StoreFolder, o).state = prev
         /\ { d.removed[k] : k \in 1..Len(d.removed) } = DOMAIN prev \ LiveTracked
         /\ PathsOf(d.added) = LiveTracked \ DOMAIN prev
         /\ PathsOf(d.modified) =
              { p \in LiveTracked \cap DOMAIN prev : prev[p].mtime # vault[p].mtime }
         /\ NoRepeat(d.removed)
         /\ NoRepeat([ k \in 1..Len(d.added) |-> d.added[k].path ])
         /\ NoRepeat([ k \in 1..Len(d.modified) |-> d.modified[k].path ])

C14_Witness ==
  \E i \in Invocations :
    /\ JustWroteDelta(i)
    /\ \E p \in LiveTracked \cap DOMAIN inv[i].previousState :
         /\ inv[i].previousState[p].mtime = vault[p].mtime
         /\ inv[i].previousState[p].size # Len(vault[p].content)
         /\ p \notin PathsOf(WrittenDelta(i).modified)

\* C15: in maybeConsolidate no delta artifact is deleted before the write of
\* the new base has completed; while that write has not completed, and when it
\* fails, every delta artifact the invocation found is in the store as it was
\* and base.json is unchanged.
C15_BaseWriteBeforeDeletion ==
  \A i \in Invocations :
    ( /\ inv[i].pc # "idle"
      /\ inv[i].folder = StoreFolder
      /\ BasePath(StoreFolder) \in DOMAIN inv[i].startVault
      /\ ~ inv[i].wroteBase )
      => /\ \A f \in deltaFiles(inv[i].startVault, StoreFolder) :
              f \in DOMAIN vault /\ vault[f] = inv[i].startVault[f]
         /\ BasePath(StoreFolder) \in DOMAIN vault
         /\ vault[BasePath(StoreFolder)] = inv[i].startVault[BasePath(StoreFolder)]

C15_Witness ==
  \E i \in Invocations :
    /\ inv[i].pc = "error" /\ inv[i].at = "maybeConsolidate_write"
    /\ Cardinality(deltaFiles(vault, StoreFolder)) >= CONSOLIDATION_THRESHOLD
    /\ inv[i].rebuilt # parseBase(vault[BasePath(StoreFolder)].content).files

\* C16 (as stated): after every invocation that runs to completion the store
\* holds fewer than CONSOLIDATION_THRESHOLD delta artifacts.
C16_BoundedHistory ==
  \A i \in Invocations :
    (inv[i].pc = "done" /\ inv[i].folder = StoreFolder)
      => Cardinality(deltaFiles(vault, StoreFolder)) < CONSOLIDATION_THRESHOLD

\* C16 (amended): after every invocation that runs maybeConsolidate to its end
\* the store holds fewer than CONSOLIDATION_THRESHOLD delta artifacts.
C16_BoundedHistoryAfterConsolidate ==
  \A i \in Invocations :
    ( /\ inv[i].pc = "done" /\ inv[i].folder = StoreFolder
      /\ inv[i].result \in {"belowThreshold", "consolidated"} )
      => Cardinality(deltaFiles(vault, StoreFolder)) < CONSOLIDATION_THRESHOLD

C16_Witness ==
  \E i \in Invocations :
    /\ inv[i].pc = "done" /\ inv[i].result = "consolidated"
    /\ Cardinality(deltaFiles(inv[i].startVault, StoreFolder))
         = CONSOLIDATION_THRESHOLD - 1
    /\ deltaFiles(vault, StoreFolder) = {}

\* base.json and the delta artifacts of a file system, with what they hold
storeOf(fs) == [ f \in storeFiles(fs, StoreFolder) |-> fs[f] ]

\* invocation i started on a store with a base, no delta for today, and a base
\* or a delta that does not parse: it is bound for rebuildCurrentState
StartedOnCorruptStore(i) ==
  /\ inv[i].pc # "idle"
  /\ inv[i].folder = StoreFolder
  /\ BasePath(StoreFolder) \in DOMAIN inv[i].startVault
  /\ DeltaPath(StoreFolder, inv[i].today) \notin DOMAIN inv[i].startVault
  /\ ~ rebuildCurrentState(inv[i].startVault, StoreFolder, "oldestFirst").ok

\* C17: when base.json or a delta artifact does not parse, the invocation gets
\* no further than rebuildCurrentState in createDelta, where it ends with an
\* error, and no base or delta artifact is created, modified or deleted.
C17_CorruptStateAborts ==
  \A i \in Invocations :
    StartedOnCorruptStore(i)
      => /\ inv[i].pc \in {"ensureFolder", "createDelta", "error", "crashed"}
         /\ inv[i].pc = "error" => inv[i].at = "createDelta"
         /\ storeOf(vault) = storeOf(inv[i].startVault)

C17_Witness ==
  \E i \in Invocations :
    /\ StartedOnCorruptStore(i)
    /\ inv[i].pc = "error"
    /\ parses(vault[BasePath(StoreFolder)].content)
    /\ \E f \in deltaFiles(vault, StoreFolder) : ~ parses(vault[f].content)

\* the entry of live file p without a hash
Unhashed(p) ==
  [path |-> p, mtime |-> vault[p].mtime, size |-> Len(vault[p].content)]

\* the live tracked files whose read fails
Unreadable == { p \in LiveTracked : ~ vault[p].readable }

\* C18: a file whose read fails does not stop the scan: the base createBase
\* writes holds its entry (path, mtime, size, no hash), and so does the delta
\* createDelta writes when the file is new or its mtime differs; neither scan
\* ends with an error.
C18_ReadFailureNonFatal ==
  \A i \in Invocations :
    /\ ( /\ inv[i].pc = "done" /\ inv[i].result = "baseCreated"
         /\ inv[i].folder = StoreFolder )
         => /\ parses(vault[BasePath(StoreFolder)].content)
            /\ \A p \in Unreadable :
                 /\ p \in basePaths(BasePath(StoreFolder))
                 /\ parseBase(vault[BasePath(StoreFolder)].content).files[p]
                      = Unhashed(p)
    /\ JustWroteDelta(i)
         => \A p \in Unreadable :
              /\ p \notin DOMAIN inv[i].previousState
                   => \E k \in 1..Len(WrittenDelta(i).added) :
                        WrittenDelta(i).added[k] = Unhashed(p)
              /\ ( /\ p \in DOMAIN inv[i].previousState
                   /\ inv[i].previousState[p].mtime # vault[p].mtime )
                   => \E k \in 1..Len(WrittenDelta(i).modified) :
                        WrittenDelta(i).modified[k] = Unhashed(p)
    /\ inv[i].pc = "error" => inv[i].at \notin {"createBase", "createDelta_scan"}

C18_Witness ==
  \E i \in Invocations :
    /\ inv[i].pc = "done" /\ inv[i].result = "baseCreated"
    /\ \E p \in Unreadable :
         /\ FileExtension(p) \in HashableExtensions
         /\ parseBase(vault[BasePath(StoreFolder)].content).files[p] = Unhashed(p)

\* the store rebuilds, for every listing order, to one entry per live tracked
\* file, with the file's mtime
TracksVault ==
  \A o \in ListingOrders :
    /\ Rebuilt(o).ok
    /\ DOMAIN Rebuilt(o).state = LiveTracked
    /\ \A p \in LiveTracked : Rebuilt(o).state[p].mtime = vault[p].mtime

\* C19: after every invocation that completes having run createBase or
\* createDelta, the state rebuilt from the store has exactly the live tracked
\* paths as keys, each with the live mtime.
C19_StoreTracksVault ==
  \A i \in Invocations :
    ( /\ inv[i].pc = "done" /\ inv[i].folder = StoreFolder
      /\ inv[i].result \in {"baseCreated", "belowThreshold", "consolidated"} )
      => TracksVault

\* C11: for every interleaving of two invocations of runDeltaIfNeeded on one
\* store and day, neither invocation ends with an error, and when both have
\* returned the store rebuilds to what it rebuilds to after the two have run
\* one after the other.
C11_NoHarmfulOverlap ==
  /\ \A i \in Invocations : inv[i].pc # "error"
  /\ ( /\ \A i \in Invocations : inv[i].pc = "done" /\ inv[i].folder = StoreFolder
       /\ inv[1].startVault = inv[2].startVault
       /\ inv[1].today = inv[2].today )
       => LET first == RunOnce(inv[1].startVault, settings, inv[1].today)
              second == RunOnce(first, settings, inv[1].today)
          IN \A o \in ListingOrders :
               Rebuilt(o) = rebuildCurrentState(second, StoreFolder, o)

\* C10: an invocation that finds no base.json creates the base and writes no
\* delta, whichever delta artifacts the store holds.
C10_NoBaseCreatesBase ==
  \A i \in Invocations :
    ( /\ inv[i].pc = "done"
      /\ inv[i].folder = StoreFolder
      /\ BasePath(StoreFolder) \notin DOMAIN inv[i].startVault )
      => /\ inv[i].wroteBase
         /\ ~ inv[i].wroteDelta
         /\ BasePath(StoreFolder) \in DOMAIN vault

====
